---- MODULE Spec2Model ----
(***************************************************************************)
(* The layer-peeling pipeline of app/services/extraction_orchestrator.py   *)
(* with the collaborator wrappers of gpt_service.py and gemini_service.py, *)
(* the numeric stages of image_processor.py and the handler of             *)
(* api/routes.py.                                                          *)
(*                                                                         *)
(* Spec and SpecPeel follow one run of extract_all_elements.  The answers  *)
(* of the two remote services (the chat completion and the image edit) are *)
(* the inputs of the run; each is drawn from a small set.  An image is     *)
(* modelled by its size, a prompt by the way it was built.  The DebugSaver *)
(* calls write files and change nothing the run reads; they are left out.  *)
(* A local that the code does not read again (a prompt, the silhouette) is *)
(* reset at its last read.                                                 *)
(*                                                                         *)
(* SpecPixels follows one call of ImageProcessor.extract_element on RGBA   *)
(* arrays, pixel by pixel: the mask, its cleaning, the result array and    *)
(* its trimming.  The similarity map itself is not computed: the mask is   *)
(* empty for two equal arrays and any of a family of masks otherwise.      *)
(*                                                                         *)
(* SpecServe follows several requests of POST /api/extract on one event    *)
(* loop, each running extract_all_elements as written.                     *)
(***************************************************************************)
EXTENDS Integers, Sequences, FiniteSets, TLC

\* --------------------------------------------------------------- bounds
\* Largest side of an image.
MaxDim == 2
\* Longest "elements" array the describe answer carries.
MaxDesc == 3
\* Longest "elements" array the reconcile answer carries.
MaxReply == 2
\* Iterations of the peel loop the model follows (the code has no cap).
MaxIter == 3

\* Requests served at the same time.
NumRequests == 2

\* Width and height of the canvas one call of extract_element works on.
GridW == 208
GridH == 7

\* ------------------------------------------------------ program constants
MAX_RETRIES == 3
RETRY_DELAY == 1
MIN_REGION_SIZE == 200

\* ------------------------------------------------------------ data model
\* schemas.py: Literal["text", "image", "shape", "background"]
ElementTypes == {"text", "image", "shape", "background"}

\* Names the remote describer uses in its answers.
Names == {"bg", "logo"}

TypeOf(name) == IF name = "bg" THEN "background" ELSE "image"

\* An element as the remote describer words it (a JSON object).
Elem(name, description) ==
    [type |-> TypeOf(name), name |-> name, description |-> description]

\* A JSON object that ElementDescription(**elem) rejects.
BadElem == [type |-> "sticker", name |-> "logo", description |-> "d0"]

\* Sizes of the images of a run: every two differ in width and in height.
ImageSizes == {[w |-> d, h |-> MaxDim + 1 - d] : d \in 1..MaxDim}

\* Sequences over S of length lo..hi.
SeqsOf(S, lo, hi) == UNION {[1..n -> S] : n \in lo..hi}

NoImage == [w |-> 0, h |-> 0]
NoElement == [type |-> "none", name |-> "none", description |-> "none"]
NoPrompt == [text |-> "none", about |-> "none"]

\* ------------------------------------------------- outcomes of a function
Return(v) == [raises |-> FALSE, error |-> "none", value |-> v]
Raise(e) == [raises |-> TRUE, error |-> e]

\* ------------------------------------------- answers of the chat service
\* response.choices[0].message.content of a describe / reconcile request:
\* nothing, text that json.loads rejects, or a JSON object with or without
\* an "elements" array.
NoContent == [content |-> "none"]
Garbage == [content |-> "garbage"]
Elements(es) == [content |-> "json", has_elements |-> TRUE, elements |-> es]
NoElementsKey == [content |-> "json", has_elements |-> FALSE, elements |-> <<>>]

DescribeAnswers ==
    {NoContent, Garbage, NoElementsKey, Elements(<<BadElem>>)}
      \cup {Elements(es) : es \in SeqsOf({Elem(n, "d0") : n \in Names}, 0, MaxDesc)}

ReconcileAnswers ==
    {NoContent, Garbage, NoElementsKey, Elements(<<BadElem>>)}
      \cup {Elements(es) : es \in SeqsOf({Elem(n, "d1") : n \in Names}, 0, MaxReply)}

\* content of a prompt request: nothing, unparsable text, or a JSON object
\* with or without a "prompt" key.
PromptAnswers ==
    {[content |-> "none"], [content |-> "garbage"],
     [content |-> "json", has_prompt |-> TRUE],
     [content |-> "json", has_prompt |-> FALSE]}

\* ------------------------------------------- answers of the edit service
\* generate_content: an image of some size, or one of the three shapes
\* _edit_image turns into ValueError.
EditFailures == {"no candidates", "no content", "no image"}
EditAnswers ==
    {[kind |-> "image", image |-> s] : s \in ImageSizes}
      \cup {[kind |-> k, image |-> NoImage] : k \in EditFailures}

\* ---------------------------------------------------------- pure stages
\* ElementDescription(**elem): the type must be one of the Literal values.
Validates(elem) == elem.type \in ElementTypes

\* [ElementDescription(**elem) for elem in elements]
ParseElements(elements) ==
    IF \E i \in 1..Len(elements) : ~Validates(elements[i])
    THEN Raise("ValidationError")
    ELSE Return([i \in 1..Len(elements) |->
                   [type |-> elements[i].type, name |-> elements[i].name,
                    description |-> elements[i].description]])

\* GPTService.describe_elements, given the content of the answer.
describe_elements(answer) ==
    IF answer.content = "none" THEN Return(<<>>)
    ELSE IF answer.content = "garbage" THEN Raise("JSONDecodeError")
    ELSE ParseElements(IF answer.has_elements THEN answer.elements ELSE <<>>)

\* A prompt: how its text was obtained and the element it names.
Prompt(text, element) == [text |-> text, about |-> element.name]

\* GPTService.generate_isolation_prompt, given the content of the answer.
generate_isolation_prompt(element, image_data, answer) ==
    IF answer.content = "none" THEN Return(Prompt("fallback", element))
    ELSE IF answer.content = "garbage" THEN Raise("JSONDecodeError")
    ELSE IF answer.has_prompt THEN Return(Prompt("custom", element))
    ELSE Return(Prompt("default", element))

\* The binding of a call's arguments to
\* generate_removal_prompt(self, element, image_data, mask_data).
removal_prompt_binds(args) == Len(args) = 3

\* GPTService.generate_removal_prompt, given the content of the answer.
generate_removal_prompt(args, answer) ==
    IF ~removal_prompt_binds(args) THEN Raise("TypeError")
    ELSE IF answer.content = "none" THEN Return(Prompt("fallback", args[1]))
    ELSE IF answer.content = "garbage" THEN Raise("JSONDecodeError")
    ELSE IF answer.has_prompt THEN Return(Prompt("custom", args[1]))
    ELSE Return(Prompt("default", args[1]))

\* update_element_references returning whatever list the answer carries, an
\* empty one included.
update_element_references_unguarded(image_data, remaining, answer) ==
    IF answer.content = "none" THEN Return(remaining)
    ELSE IF answer.content = "garbage" THEN Raise("JSONDecodeError")
    ELSE ParseElements(IF answer.has_elements THEN answer.elements ELSE <<>>)

\* GPTService.update_element_references, given the content of the answer.
update_element_references(image_data, remaining, answer) ==
    IF answer.content = "none" THEN Return(remaining)
    ELSE IF answer.content = "garbage" THEN Raise("JSONDecodeError")
    ELSE LET elements == IF answer.has_elements THEN answer.elements ELSE <<>>
         IN IF elements = <<>> THEN Return(remaining)
            ELSE ParseElements(elements)

\* The f-strings of GeminiService.isolate_element and remove_element read
\* element.name and element.description.
HasElementAttributes(element) ==
    {"name", "description"} \subseteq DOMAIN element

\* GeminiService.isolate_element up to its call of _edit_image.
isolate_element(image_data, element) ==
    IF HasElementAttributes(element) THEN Return([edit |-> "isolate", name |-> element.name])
    ELSE Raise("AttributeError")

\* GeminiService.remove_element up to its call of _edit_image.
remove_element(image_data, element) ==
    IF HasElementAttributes(element) THEN Return([edit |-> "remove", name |-> element.name])
    ELSE Raise("AttributeError")

\* The retry test off by one: a sleep and one more attempt after the last.
CanRetry_once_more(attempt) == attempt < MAX_RETRIES

\* _edit_image: "if attempt < MAX_RETRIES - 1" after a ValueError.
CanRetry(attempt) == attempt < MAX_RETRIES - 1

\* The same sleep before every attempt.
Delay_flat(attempt) == RETRY_DELAY

\* _edit_image: the sleep before the next attempt.
Delay(attempt) == RETRY_DELAY * (attempt + 1)

\* extract_full_image with the two sides of the image taken in the wrong order.
extract_full_image_swapped(image) ==
    [x |-> 0, y |-> 0, width |-> image.h, height |-> image.w]

\* ImageProcessor.extract_full_image
extract_full_image(image) ==
    [x |-> 0, y |-> 0, width |-> image.w, height |-> image.h]

\* ImageProcessor.extract_element with _trim_and_encode: the modified image
\* is resized to the original's size, and the result is the bounding box of
\* the kept pixels inside the original's canvas, or the whole canvas when
\* no pixel is kept.
ExtractBoxes(original) ==
    {b \in [x : 0..(original.w - 1), y : 0..(original.h - 1),
            width : 1..original.w, height : 1..original.h] :
        /\ b.x + b.width <= original.w
        /\ b.y + b.height <= original.h}

\* The layers returned in the order they were appended.
reversed_not(xs) == xs

\* list(reversed(xs))
reversed(xs) == [i \in 1..Len(xs) |-> xs[Len(xs) + 1 - i]]

\* The list with the processed element left in.
AllButLast_kept(xs) == xs

\* xs[:-1]
AllButLast(xs) == IF xs = <<>> THEN <<>> ELSE SubSeq(xs, 1, Len(xs) - 1)

\* ExtractedElement(id=str(uuid.uuid4()), type=..., ..., x=extracted.x, ...)
Layer(id, element, extracted) ==
    [id |-> id, type |-> element.type, name |-> element.name,
     description |-> element.description,
     x |-> extracted.x, y |-> extracted.y,
     width |-> extracted.width, height |-> extracted.height]

\* ------------------------------------------------ arrays, masks, regions
\* A position is <<x, y>>: column and row, as PIL counts them (numpy indexes
\* the same pixel [y, x]).  A mask is the set of its True positions.
Grid(w, h) == (0..(w - 1)) \X (0..(h - 1))

\* A pixel of an RGBA array: the colour, 0 standing for (0, 0, 0), and alpha.
Pixel(rgb, a) == [rgb |-> rgb, a |-> a]
Zero == Pixel(0, 0)
Black == Pixel(0, 255)

Array(w, h, px) == [w |-> w, h |-> h, px |-> px]

\* ndimage.generate_binary_structure(2, 2): the pixel and its 8 neighbours.
Nbrs8(p) == {<<p[1] + dx, p[2] + dy>> : dx \in -1..1, dy \in -1..1}

\* The default structure of ndimage.label: the pixel and its 4 neighbours.
Nbrs4(p) ==
    {p, <<p[1] - 1, p[2]>>, <<p[1] + 1, p[2]>>, <<p[1], p[2] - 1>>,
     <<p[1], p[2] + 1>>}

Nbrs(p, diagonal) == IF diagonal THEN Nbrs8(p) ELSE Nbrs4(p)

\* ndimage.binary_erosion(X, structure, iterations = n), border_value = 0:
\* a pixel stays when its 8 neighbours are set, those beyond the border
\* counting as not set.
RECURSIVE binary_erosion(_, _)
binary_erosion(X, n) ==
    IF n = 0 THEN X
    ELSE binary_erosion({p \in X : Nbrs8(p) \subseteq X}, n - 1)

\* ndimage.binary_dilation(X, structure, iterations = n) on a w x h array.
RECURSIVE binary_dilation(_, _, _, _)
binary_dilation(X, n, w, h) ==
    IF n = 0 THEN X
    ELSE binary_dilation((UNION {Nbrs8(p) : p \in X}) \cap Grid(w, h),
                         n - 1, w, h)

\* ndimage.binary_closing: the dilation, then the erosion.
binary_closing(X, n, w, h) == binary_erosion(binary_dilation(X, n, w, h), n)

\* ndimage.binary_opening: the erosion, then the dilation.
binary_opening(X, n, w, h) == binary_dilation(binary_erosion(X, n), n, w, h)

\* The pixels of X next to the frontier and not seen yet.
Ring(frontier, seen, X, diagonal) ==
    ((UNION {Nbrs(p, diagonal) : p \in frontier}) \cap X) \ seen

\* The connected region of X that holds the pixels `seen`, grown four rings
\* at a time.
RECURSIVE Flood(_, _, _, _)
Flood(seen, frontier, X, diagonal) ==
    IF frontier = {} THEN seen
    ELSE LET r1 == Ring(frontier, seen, X, diagonal)
             s1 == seen \cup r1
             r2 == Ring(r1, s1, X, diagonal)
             s2 == s1 \cup r2
             r3 == Ring(r2, s2, X, diagonal)
             s3 == s2 \cup r3
             r4 == Ring(r3, s3, X, diagonal)
         IN Flood(s3 \cup r4, r4, X, diagonal)

\* p comes before q, column by column.
Before(p, q) == p[1] < q[1] \/ (p[1] = q[1] /\ p[2] < q[2])

\* The connected regions of X, each grown from its pixels that have no
\* neighbour in X before them (the first pixel of a region is one).
Regions(X, diagonal) ==
    {Flood({p}, {p}, X, diagonal) :
        p \in {q \in X : \A n \in Nbrs(q, diagonal) \cap X : ~Before(n, q)}}

\* ndimage.label(X): the regions "labeled == i", i in 1..num_features.
label(X) == Regions(X, FALSE)

\* _clean_mask lines 103-107 and 111-115: the union of the regions of X of
\* at least `floor` pixels.
keep_regions(X, floor) == UNION {R \in label(X) : Cardinality(R) >= floor}

\* -------------------------------------------------- composing and trimming
\* The result array with the original's alpha left on the pixels that are
\* not selected.
compose_keeps_alpha(original, selected) ==
    Array(original.w, original.h,
          [p \in Grid(original.w, original.h) |->
             IF p \in selected THEN original.px[p]
             ELSE Pixel(0, original.px[p].a)])

\* extract_element lines 74-76: the original's pixels where the mask is set,
\* zeros (alpha included) elsewhere.
compose(original, selected) ==
    Array(original.w, original.h,
          [p \in Grid(original.w, original.h) |->
             IF p \in selected THEN original.px[p] ELSE Zero])

\* The pixels Image.getbbox takes for content when it looks at every band.
NonZero(image) == {p \in DOMAIN image.px : image.px[p] # Zero}

\* The pixels Image.getbbox takes for content: on an RGBA image those of
\* nonzero alpha (getbbox(alpha_only=True), the default).
Opaque(image) == {p \in DOMAIN image.px : image.px[p].a # 0}

None == [none |-> TRUE]

\* The box of getbbox with every band looked at.
getbbox_any_band(image) ==
    LET content == NonZero(image)
        xs == {p[1] : p \in content}
        ys == {p[2] : p \in content}
    IN IF content = {} THEN None
       ELSE [x |-> CHOOSE x \in xs : \A o \in xs : x <= o,
             y |-> CHOOSE y \in ys : \A o \in ys : y <= o,
             x2 |-> 1 + CHOOSE x \in xs : \A o \in xs : x >= o,
             y2 |-> 1 + CHOOSE y \in ys : \A o \in ys : y >= o]

\* Image.getbbox(): None, or (left, upper, right, lower) around the content,
\* right and lower lying one past it.
getbbox(image) ==
    LET content == Opaque(image)
        xs == {p[1] : p \in content}
        ys == {p[2] : p \in content}
    IN IF content = {} THEN None
       ELSE [x |-> CHOOSE x \in xs : \A o \in xs : x <= o,
             y |-> CHOOSE y \in ys : \A o \in ys : y <= o,
             x2 |-> 1 + CHOOSE x \in xs : \A o \in xs : x >= o,
             y2 |-> 1 + CHOOSE y \in ys : \A o \in ys : y >= o]

\* The crop that keeps the column left of the box when there is one.
crop_loose(image, bbox) ==
    LET x == IF bbox.x > 0 THEN bbox.x - 1 ELSE 0
    IN Array(bbox.x2 - x, bbox.y2 - bbox.y,
             [p \in Grid(bbox.x2 - x, bbox.y2 - bbox.y) |->
                image.px[<<p[1] + x, p[2] + bbox.y>>]])

\* Image.crop(bbox)
crop(image, bbox) ==
    Array(bbox.x2 - bbox.x, bbox.y2 - bbox.y,
          [p \in Grid(bbox.x2 - bbox.x, bbox.y2 - bbox.y) |->
             image.px[<<p[1] + bbox.x, p[2] + bbox.y>>]])

\* ExtractionResult; src holds the PNG of the buffer, a lossless encoding.
ExtractionResult(x, y, width, height, buffer) ==
    [x |-> x, y |-> y, width |-> width, height |-> height, src |-> buffer]

\* ImageProcessor._trim_and_encode
trim_and_encode(image) ==
    LET bbox == getbbox(image) IN
      IF bbox = None
      THEN ExtractionResult(0, 0, image.w, image.h, image)
      ELSE ExtractionResult(bbox.x, bbox.y, bbox.x2 - bbox.x, bbox.y2 - bbox.y,
                            crop(image, bbox))

\* ------------------------------------------------- the inputs of a call
Rect(x0, y0, w, h) == (x0..(x0 + w - 1)) \X (y0..(y0 + h - 1))

\* A blob whose core outlasts the erosion and is too small for both floors.
Block == Rect(GridW - 7, 1, 5, 5)

\* A thin region of MIN_REGION_SIZE pixels that touch by their corners only.
Zigzag == {<<x, x % 2>> : x \in 0..(MIN_REGION_SIZE - 1)}

\* Strips three and five rows high, short, of half the floor and of nearly
\* the canvas's width, at the border and one pixel inside it.
Strips ==
    {Rect(x0, y0, w, h) :
        x0 \in {0, 1}, y0 \in {0, 1}, h \in {3, 5},
        w \in {5, (MIN_REGION_SIZE \div 2) + 4, GridW - 2}}

\* The masks the comparison of two differing images may give.
Masks ==
    LET shapes == Strips \cup {Zigzag}
    IN {{}} \cup shapes \cup {m \cup Block : m \in shapes}

\* The uploaded picture with the positions `clear` transparent: two colours
\* in a checkerboard, so that every two neighbours differ.
Picture(clear) ==
    Array(GridW, GridH,
          [p \in Grid(GridW, GridH) |->
             Pixel(1 + ((p[1] + p[2]) % 2), IF p \in clear THEN 0 ELSE 255)])

\* Opaque, transparent in its three leftmost columns, transparent all over.
Originals ==
    {Picture(clear) : clear \in {{}, Rect(0, 0, 3, GridH), Grid(GridW, GridH)}}

\* The picture with every pixel painted black.
Silhouette(original) ==
    Array(original.w, original.h,
          [p \in Grid(original.w, original.h) |-> Black])

\* The second argument of extract_element: the same bytes, a silhouette, or
\* a silhouette of another size.
Modifieds(original) ==
    {original, Silhouette(original),
     Silhouette(Array(original.h, original.w, <<>>))}

\* Lines 40-41: resampled to the original's size, an image of another size
\* becomes some image of that size.
resize(modified, original) ==
    IF <<modified.w, modified.h>> = <<original.w, original.h>>
    THEN {modified}
    ELSE {original, Silhouette(original)}

\* The comparison finds a difference nowhere in two equal images and anywhere
\* in two that differ.
low_similarity_anywhere(original, modified) == Masks

\* Lines 47-68: the pixels whose similarity is below SSIM_THRESHOLD.  Two
\* equal arrays have similarity 1 everywhere; for two that differ the model
\* lets the set be any of Masks.
low_similarity(original, modified) ==
    IF modified = original THEN {{}} ELSE Masks

\* ------------------------------------------------------------- the state
VARIABLES
    pc,                    \* position in extract_all_elements
    original_image,        \* the argument
    image_state,
    elements_description,
    extracted_elements,
    iteration,
    current_element,
    isolation_prompt,
    black_image,
    removal_prompt,
    remaining_elements,
    attempt,               \* _edit_image: the loop variable
    last_error,            \* _edit_image: the ValueError of the last attempt
    slept,                 \* _edit_image: the delays slept in this call
    result,                \* the returned list
    error,                 \* the exception that ended the run
    uuids,                 \* identifiers issued by uuid.uuid4()
    \* the history of the run
    described,             \* what the initial describe call returned
    calls,                 \* calls made, by callee
    last_call,             \* the collaborator call that completed last
    faults,                \* some answer so far was empty or unusable
    echoed,                \* every reconcile so far returned its candidates
    net_change,            \* elements reconcile added minus those it dropped
    appended_at,           \* the iteration each layer was appended in
    extracted,             \* the ExtractionResult of the last numeric stage
    given,                 \* the image each step of this iteration was handed
    \* ImageProcessor.extract_element, one call
    stage,                 \* position in extract_element and its callees
    original_array,
    modified_array,
    mask,                  \* _clean_mask: the parameter
    eroded_mask,
    cleaned_mask,
    result_array,
    extraction,            \* what _trim_and_encode returned
    retrimmed,             \* _trim_and_encode of the buffer it returned
    \* the requests one event loop serves
    tasks,                 \* per request: position, upload, answers, outcome
    frames,                \* per coroutine frame: the locals of lines 35-40
    on_loop,               \* the request whose step occupies the loop's thread
    inbox                  \* per request: the response its await waits for

control == <<pc, result, error>>
images == <<original_image, image_state, black_image>>
lists == <<elements_description, extracted_elements, remaining_elements,
           uuids, appended_at>>
locals == <<current_element, isolation_prompt, removal_prompt>>
retry == <<attempt, last_error, slept>>
history == <<described, calls, last_call, faults, echoed, net_change>>


pixels == <<stage, original_array, modified_array, mask, eroded_mask,
            cleaned_mask, result_array, extraction, retrimmed>>
serving == <<tasks, frames, on_loop, inbox>>

\* The state of the other specifications, as seen from one of them.
elsewhere == <<pixels, serving>>

\* The state of one run of extract_all_elements.
run == <<control, images, lists, locals, retry, history, iteration, extracted,
        given>>

vars == <<run, elsewhere>>

Callees == {"describe", "generate_isolation_prompt", "isolate_element",
            "extract_element", "generate_removal_prompt", "remove_element",
            "update_element_references", "extract_full_image"}

NoCall == [callee |-> "none", attempts |-> 0, answer |-> "none"]

NoExtraction == [x |-> 0, y |-> 0, width |-> 0, height |-> 0]

\* The steps of an iteration that are handed an image, and the image the
\* remove call returned.
Handed == {"head", "isolate_element", "extract_element", "remove_element",
           "removed", "update_element_references"}
NoGiven == [step \in Handed |-> NoImage]

\* The iteration begins on `image`.
Begins(image) == [NoGiven EXCEPT !["head"] = image]
NoArray == [w |-> 0, h |-> 0, px |-> <<>>]

\* No call of extract_element is under way.
NoPixels ==
    /\ stage = "idle"
    /\ original_array = NoArray
    /\ modified_array = NoArray
    /\ mask = {}
    /\ eroded_mask = {}
    /\ cleaned_mask = {}
    /\ result_array = NoArray
    /\ extraction = NoExtraction
    /\ retrimmed = NoExtraction

\* No request is being served.
NoRequests ==
    /\ tasks = <<>>
    /\ frames = <<>>
    /\ on_loop = 0
    /\ inbox = <<>>

\* Lines 36-37 and the locals not yet bound.
Fresh ==
    /\ black_image = NoImage
    /\ elements_description = <<>>
    /\ extracted_elements = <<>>
    /\ remaining_elements = <<>>
    /\ iteration = 1
    /\ current_element = NoElement
    /\ isolation_prompt = NoPrompt
    /\ removal_prompt = NoPrompt
    /\ extracted = NoExtraction
    /\ given = NoGiven
    /\ attempt = 0
    /\ last_error = "none"
    /\ slept = <<>>
    /\ result = <<>>
    /\ error = "none"
    /\ uuids = 0
    /\ described = <<>>
    /\ calls = [c \in Callees |-> 0]
    /\ last_call = NoCall
    /\ faults = FALSE
    /\ echoed = TRUE
    /\ net_change = 0
    /\ appended_at = <<>>

\* No run of extract_all_elements is under way.
NoRun ==
    /\ pc = "idle"
    /\ original_image = NoImage
    /\ image_state = NoImage
    /\ Fresh

\* Lines 32-37: the locals before the first await.
Init ==
    /\ pc = "describe"
    /\ original_image \in ImageSizes
    /\ image_state = original_image
    /\ Fresh
    /\ NoPixels
    /\ NoRequests

Called(c) == [calls EXCEPT ![c] = @ + 1]

\* What the answer to a describe or reconcile request amounts to.
ElementsKind(answer) ==
    IF answer.content = "none" THEN "empty"
    ELSE IF answer.content = "garbage" THEN "partial"
    ELSE IF ~answer.has_elements \/ answer.elements = <<>> THEN "no elements"
    ELSE IF ParseElements(answer.elements).raises THEN "invalid"
    ELSE "ok"

\* What the answer to a prompt request amounts to.
PromptKind(answer) ==
    IF answer.content = "none" THEN "empty"
    ELSE IF answer.content = "garbage" THEN "partial"
    ELSE IF ~answer.has_prompt THEN "no prompt"
    ELSE "ok"

\* The record of a chat call: the wrappers send one request per call.
ChatCall(callee, kind) == [callee |-> callee, attempts |-> 1, answer |-> kind]

\* An exception ends the run and the layers appended so far are returned.
Raised_with_layers(e) ==
    /\ pc' = "raised"
    /\ error' = e
    /\ result' = reversed(extracted_elements)

\* An exception leaves extract_all_elements: nothing is returned.
Raised(e) ==
    /\ pc' = "raised"
    /\ error' = e
    /\ result' = <<>>

\* ------------------------------------------------------------ the actions
\* Line 40 raising: the answer does not parse or does not validate.
DescribeRaises ==
    /\ pc = "describe"
    /\ \E answer \in DescribeAnswers :
         LET r == describe_elements(answer) IN
           /\ r.raises
           /\ Raised(r.error)
           /\ last_call' = ChatCall("describe", ElementsKind(answer))
           /\ faults' = TRUE
    /\ calls' = Called("describe")
    /\ UNCHANGED <<elsewhere, extracted, given,
                   images, lists, locals, retry, iteration, described,
                   echoed, net_change>>

\* Lines 40-45 without the test of line 42: the loop is entered with nothing
\* to peel.
DescribeEmptyEntersLoop ==
    /\ pc = "describe"
    /\ \E answer \in DescribeAnswers :
         LET r == describe_elements(answer) IN
           /\ ~r.raises
           /\ r.value = <<>>
           /\ elements_description' = r.value
           /\ described' = r.value
           /\ last_call' = ChatCall("describe", ElementsKind(answer))
           /\ faults' = (faults \/ ElementsKind(answer) # "ok")
    /\ pc' = "head"
    /\ calls' = Called("describe")
    /\ UNCHANGED <<elsewhere, extracted, given,
                   result, error, images, extracted_elements,
                   remaining_elements, uuids, appended_at, locals, retry,
                   iteration, echoed, net_change>>

\* Lines 40-43: describe returned nothing, the run returns [].
DescribeEmpty ==
    /\ pc = "describe"
    /\ \E answer \in DescribeAnswers :
         LET r == describe_elements(answer) IN
           /\ ~r.raises
           /\ r.value = <<>>
           /\ elements_description' = r.value
           /\ described' = r.value
           /\ last_call' = ChatCall("describe", ElementsKind(answer))
           /\ faults' = (faults \/ ElementsKind(answer) # "ok")
    /\ result' = <<>>
    /\ pc' = "returned"
    /\ calls' = Called("describe")
    /\ UNCHANGED <<elsewhere, extracted, given,
                   error, images, extracted_elements, remaining_elements,
                   uuids, appended_at, locals, retry, iteration, echoed,
                   net_change>>

\* Lines 40-45: describe returned elements, the loop is entered.
DescribeElements ==
    /\ pc = "describe"
    /\ \E answer \in DescribeAnswers :
         LET r == describe_elements(answer) IN
           /\ ~r.raises
           /\ r.value # <<>>
           /\ elements_description' = r.value
           /\ described' = r.value
           /\ last_call' = ChatCall("describe", ElementsKind(answer))
           /\ faults' = (faults \/ ElementsKind(answer) # "ok")
    /\ pc' = "head"
    /\ calls' = Called("describe")
    /\ UNCHANGED <<elsewhere, extracted, given,
                   result, error, images, extracted_elements,
                   remaining_elements, uuids, appended_at, locals, retry,
                   iteration, echoed, net_change>>

\* The terminal extraction made also when the topmost element is a background
\* and others are left.
ExtractLast_at_background ==
    /\ pc = "head"
    /\ elements_description # <<>>
    /\ \/ Len(elements_description) = 1
       \/ elements_description[Len(elements_description)].type = "background"
    /\ LET last_element == elements_description[1]
           appended == Append(extracted_elements,
                              Layer(uuids + 1, last_element, extracted'))
       IN /\ extracted' = extract_full_image(image_state)
          /\ extracted_elements' = appended
          /\ result' = reversed(appended)
    /\ uuids' = uuids + 1
    /\ appended_at' = Append(appended_at, iteration)
    /\ pc' = "returned"
    /\ calls' = Called("extract_full_image")
    /\ given' = Begins(image_state)
    /\ UNCHANGED <<elsewhere,
                   error, images, elements_description, remaining_elements,
                   locals, retry, iteration, described, last_call, faults,
                   echoed, net_change>>

\* Lines 48-71 and 135-141: one element is left; the image state is the
\* layer, the loop ends and the layers are returned reversed.
ExtractLast ==
    /\ pc = "head"
    /\ Len(elements_description) = 1
    /\ LET last_element == elements_description[1]
           appended == Append(extracted_elements,
                              Layer(uuids + 1, last_element, extracted'))
       IN /\ extracted' = extract_full_image(image_state)
          /\ extracted_elements' = appended
          /\ result' = reversed(appended)
    /\ uuids' = uuids + 1
    /\ appended_at' = Append(appended_at, iteration)
    /\ pc' = "returned"
    /\ calls' = Called("extract_full_image")
    /\ given' = Begins(image_state)
    /\ UNCHANGED <<elsewhere,
                   error, images, elements_description, remaining_elements,
                   locals, retry, iteration, described, last_call, faults,
                   echoed, net_change>>

\* Lines 73-77 picking the first (bottom) element instead of the last.
StartIteration_bottom ==
    /\ pc = "head"
    /\ Len(elements_description) # 1
    /\ iteration < MaxIter
    /\ IF elements_description = <<>>
       THEN /\ Raised("IndexError")
            /\ UNCHANGED current_element
       ELSE /\ current_element' = elements_description[1]
            /\ pc' = "generate_isolation_prompt"
            /\ UNCHANGED <<result, error>>
    /\ given' = Begins(image_state)
    /\ UNCHANGED <<elsewhere, extracted,
                   images, lists, isolation_prompt, removal_prompt, retry,
                   iteration, history>>

\* Lines 73-77: more than one element is left; the last one is picked.
\* The model follows MaxIter iterations.
StartIteration ==
    /\ pc = "head"
    /\ Len(elements_description) # 1
    /\ iteration < MaxIter
    /\ IF elements_description = <<>>
       THEN /\ Raised("IndexError")
            /\ UNCHANGED current_element
       ELSE /\ current_element' = elements_description[Len(elements_description)]
            /\ pc' = "generate_isolation_prompt"
            /\ UNCHANGED <<result, error>>
    /\ given' = Begins(image_state)
    /\ UNCHANGED <<elsewhere, extracted,
                   images, lists, isolation_prompt, removal_prompt, retry,
                   iteration, history>>

\* Lines 80-83.
GenerateIsolationPrompt ==
    /\ pc = "generate_isolation_prompt"
    /\ \E answer \in PromptAnswers :
         LET r == generate_isolation_prompt(current_element, image_state, answer)
         IN /\ IF r.raises
               THEN /\ Raised(r.error)
                    /\ UNCHANGED isolation_prompt
               ELSE /\ isolation_prompt' = r.value
                    /\ pc' = "isolate_element"
                    /\ UNCHANGED <<result, error>>
            /\ last_call' = ChatCall("generate_isolation_prompt", PromptKind(answer))
            /\ faults' = (faults \/ PromptKind(answer) # "ok")
    /\ calls' = Called("generate_isolation_prompt")
    /\ UNCHANGED <<elsewhere, extracted, given,
                   images, lists, current_element, removal_prompt, retry,
                   iteration, described, echoed, net_change>>

\* Line 86: isolate_element is entered with `element` as its second
\* argument and, unless its f-string raises, enters _edit_image.
IsolateElementCall(element) ==
    /\ pc = "isolate_element"
    /\ LET r == isolate_element(image_state, element)
       IN IF r.raises
          THEN /\ Raised(r.error)
               /\ UNCHANGED retry
          ELSE /\ pc' = "isolate_edit"
               /\ attempt' = 0
               /\ last_error' = "none"
               /\ slept' = <<>>
               /\ UNCHANGED <<result, error>>
    /\ isolation_prompt' = NoPrompt
    /\ calls' = Called("isolate_element")
    /\ given' = [given EXCEPT !["isolate_element"] = image_state]
    /\ UNCHANGED <<elsewhere, extracted,
                   images, lists, current_element, removal_prompt, iteration,
                   described, last_call, faults, echoed, net_change>>

\* Lines 86-88 as written: the second argument is the prompt string.
IsolateElement == IsolateElementCall(isolation_prompt)

\* Line 86 with an argument of the declared type ElementDescription.
IsolateElementTyped == IsolateElementCall(current_element)

\* The callee whose _edit_image loop is running.
Editing == IF pc = "isolate_edit" THEN "isolate_element" ELSE "remove_element"

EditKind(answer) ==
    IF answer.kind = "image" THEN "image"
    ELSE IF answer.kind = "no image" THEN "partial"
    ELSE "empty"

EditCall(answer) ==
    [callee |-> Editing, attempts |-> attempt + 1, answer |-> EditKind(answer)]

\* _edit_image lines 54-87: an attempt ends in ValueError and another follows
\* after the sleep.
EditRetry ==
    /\ pc \in {"isolate_edit", "remove_edit"}
    /\ CanRetry(attempt)
    /\ \E answer \in EditAnswers :
         /\ answer.kind \in EditFailures
         /\ last_error' = answer.kind
    /\ slept' = Append(slept, Delay(attempt))
    /\ attempt' = attempt + 1
    /\ faults' = TRUE
    /\ UNCHANGED <<elsewhere, extracted, given,
                   control, images, lists, locals, iteration, described,
                   calls, last_call, echoed, net_change>>

\* _edit_image lines 81-88: the last attempt ends in ValueError, re-raised.
EditGivesUp ==
    /\ pc \in {"isolate_edit", "remove_edit"}
    /\ ~CanRetry(attempt)
    /\ \E answer \in EditAnswers :
         /\ answer.kind \in EditFailures
         /\ last_error' = answer.kind
         /\ last_call' = EditCall(answer)
    /\ Raised("ValueError")
    /\ faults' = TRUE
    /\ UNCHANGED <<elsewhere, extracted, given,
                   images, lists, locals, attempt, slept, iteration,
                   described, calls, echoed, net_change>>

\* The silhouette taken for the image state as well as for black_image.
IsolateReturns_into_state ==
    /\ pc = "isolate_edit"
    /\ \E answer \in EditAnswers :
         /\ answer.kind = "image"
         /\ black_image' = answer.image
         /\ image_state' = answer.image
         /\ last_call' = EditCall(answer)
    /\ pc' = "extract_element"
    /\ UNCHANGED <<elsewhere, extracted, given,
                   result, error, original_image, lists, locals,
                   retry, iteration, described, calls, faults, echoed,
                   net_change>>

\* _edit_image line 77 and orchestrator lines 86-89: the silhouette arrives.
IsolateReturns ==
    /\ pc = "isolate_edit"
    /\ \E answer \in EditAnswers :
         /\ answer.kind = "image"
         /\ black_image' = answer.image
         /\ last_call' = EditCall(answer)
    /\ pc' = "extract_element"
    /\ UNCHANGED <<elsewhere, extracted, given,
                   result, error, original_image, image_state, lists, locals,
                   retry, iteration, described, calls, faults, echoed,
                   net_change>>

\* Lines 92-107: the element's pixels are cut out of the image state and the
\* layer is appended.
ExtractElement ==
    /\ pc = "extract_element"
    /\ extracted' \in ExtractBoxes(image_state)
    /\ extracted_elements' =
         Append(extracted_elements, Layer(uuids + 1, current_element, extracted'))
    /\ uuids' = uuids + 1
    /\ appended_at' = Append(appended_at, iteration)
    /\ pc' = "generate_removal_prompt"
    /\ calls' = Called("extract_element")
    /\ given' = [given EXCEPT !["extract_element"] = image_state]
    /\ UNCHANGED <<elsewhere,
                   result, error, images, elements_description,
                   remaining_elements, locals, retry, iteration, described,
                   last_call, faults, echoed, net_change>>

\* Lines 110-113: generate_removal_prompt is called with `args` after self.
GenerateRemovalPromptCall(args) ==
    /\ pc = "generate_removal_prompt"
    /\ \E answer \in PromptAnswers :
         LET r == generate_removal_prompt(args, answer)
             asked == removal_prompt_binds(args)
         IN /\ IF r.raises
               THEN /\ Raised(r.error)
                    /\ UNCHANGED removal_prompt
               ELSE /\ removal_prompt' = r.value
                    /\ pc' = "remove_element"
                    /\ UNCHANGED <<result, error>>
            /\ last_call' = IF asked
                            THEN ChatCall("generate_removal_prompt", PromptKind(answer))
                            ELSE last_call
            /\ faults' = (faults \/ (asked /\ PromptKind(answer) # "ok"))
    /\ black_image' = NoImage
    /\ calls' = Called("generate_removal_prompt")
    /\ UNCHANGED <<elsewhere, extracted, given,
                   original_image, image_state, lists, current_element,
                   isolation_prompt, retry, iteration, described, echoed,
                   net_change>>

\* Lines 110-112 as written: two arguments for three parameters.
GenerateRemovalPrompt ==
    GenerateRemovalPromptCall(<<current_element, image_state>>)

\* Line 110 with the mask as third argument.
GenerateRemovalPromptTyped ==
    GenerateRemovalPromptCall(<<current_element, image_state, black_image>>)

\* Line 116: remove_element is entered with `element` as its second argument
\* and, unless its f-string raises, enters _edit_image.
RemoveElementCall(element) ==
    /\ pc = "remove_element"
    /\ LET r == remove_element(image_state, element)
       IN IF r.raises
          THEN /\ Raised(r.error)
               /\ UNCHANGED retry
          ELSE /\ pc' = "remove_edit"
               /\ attempt' = 0
               /\ last_error' = "none"
               /\ slept' = <<>>
               /\ UNCHANGED <<result, error>>
    /\ removal_prompt' = NoPrompt
    /\ calls' = Called("remove_element")
    /\ given' = [given EXCEPT !["remove_element"] = image_state]
    /\ UNCHANGED <<elsewhere, extracted,
                   images, lists, current_element, isolation_prompt, iteration,
                   described, last_call, faults, echoed, net_change>>

\* Lines 116-118 as written: the second argument is the prompt string.
RemoveElement == RemoveElementCall(removal_prompt)

\* Line 116 with an argument of the declared type ElementDescription.
RemoveElementTyped == RemoveElementCall(current_element)

\* _edit_image line 77 and orchestrator lines 116-119: the edited image
\* becomes the image state.
RemoveReturns ==
    /\ pc = "remove_edit"
    /\ \E answer \in EditAnswers :
         /\ answer.kind = "image"
         /\ image_state' = answer.image
         /\ last_call' = EditCall(answer)
    /\ pc' = "shrink"
    /\ given' = [given EXCEPT !["removed"] = image_state']
    /\ UNCHANGED <<elsewhere, extracted,
                   result, error, original_image, black_image, lists, locals,
                   retry, iteration, described, calls, faults, echoed,
                   net_change>>

\* Lines 122-125 and 135-141: the processed element is dropped; with nothing
\* left the loop ends and the layers are returned reversed.
Shrink ==
    /\ pc = "shrink"
    /\ remaining_elements' = AllButLast(elements_description)
    /\ IF remaining_elements' = <<>>
       THEN /\ result' = reversed(extracted_elements)
            /\ pc' = "returned"
       ELSE /\ pc' = "update_element_references"
            /\ UNCHANGED result
    /\ UNCHANGED <<elsewhere, extracted, given,
                   error, images, elements_description, extracted_elements,
                   uuids, appended_at, locals, retry, iteration, history>>

\* Two lists name the same elements in the same order.
SameElements(xs, ys) ==
    /\ Len(xs) = Len(ys)
    /\ \A i \in 1..Len(xs) : xs[i].type = ys[i].type /\ xs[i].name = ys[i].name

\* Lines 128-133: the remaining elements are reconciled with the new image
\* state and the next iteration begins.
Refresh ==
    /\ pc = "update_element_references"
    /\ \E answer \in ReconcileAnswers :
         LET r == update_element_references(image_state, remaining_elements, answer)
         IN /\ IF r.raises
               THEN /\ Raised(r.error)
                    /\ UNCHANGED <<elements_description, iteration, echoed,
                                   net_change>>
               ELSE /\ elements_description' = r.value
                    /\ iteration' = iteration + 1
                    /\ pc' = "head"
                    /\ echoed' = (echoed /\ SameElements(r.value, remaining_elements))
                    /\ net_change' = net_change + Len(r.value) - Len(remaining_elements)
                    /\ UNCHANGED <<result, error>>
            /\ last_call' = ChatCall("update_element_references", ElementsKind(answer))
            /\ faults' = (faults \/ ElementsKind(answer) # "ok")
    /\ calls' = Called("update_element_references")
    /\ given' = [given EXCEPT !["update_element_references"] = image_state]
    /\ UNCHANGED <<elsewhere, extracted,
                   images, extracted_elements, remaining_elements, uuids,
                   appended_at, locals, retry, described>>

\* ------------------------------------------------------ the specifications
\* extract_all_elements as written.
Next ==
    \/ DescribeRaises
    \/ DescribeEmpty
    \/ DescribeElements
    \/ ExtractLast
    \/ StartIteration
    \/ GenerateIsolationPrompt
    \/ IsolateElement

Spec == Init /\ [][Next]_vars

\* extract_all_elements with, besides the calls as written, the three calls
\* of lines 86, 110 and 116 made with arguments their callees accept: the
\* steps of the loop body that follow line 86.
PeelNext ==
    \/ Next
    \/ IsolateElementTyped
    \/ EditRetry
    \/ EditGivesUp
    \/ IsolateReturns
    \/ ExtractElement
    \/ GenerateRemovalPrompt
    \/ GenerateRemovalPromptTyped
    \/ RemoveElement
    \/ RemoveElementTyped
    \/ RemoveReturns
    \/ Shrink
    \/ Refresh

SpecPeel == Init /\ [][PeelNext]_vars

\* ------------------------------------- ImageProcessor.extract_element
\* One call of extract_element(original_data, modified_data), entered with
\* the two images decoded.
PixelInit ==
    /\ NoRun
    /\ NoRequests
    /\ stage = "open"
    /\ original_array \in Originals
    /\ modified_array \in Modifieds(original_array)
    /\ mask = {}
    /\ eroded_mask = {}
    /\ cleaned_mask = {}
    /\ result_array = NoArray
    /\ extraction = NoExtraction
    /\ retrimmed = NoExtraction

\* Lines 37-44: the modified image takes the original's size.
Open ==
    /\ stage = "open"
    /\ modified_array' \in resize(modified_array, original_array)
    /\ stage' = "compare"
    /\ UNCHANGED <<run, serving, original_array, mask, eroded_mask,
                   cleaned_mask, result_array, extraction, retrimmed>>

\* Lines 46-68: the mask of the pixels that changed.
Compare ==
    /\ stage = "compare"
    /\ mask' \in low_similarity(original_array, modified_array)
    /\ stage' = "erode"
    /\ UNCHANGED <<run, serving, original_array, modified_array, eroded_mask,
                   cleaned_mask, result_array, extraction, retrimmed>>

\* _clean_mask lines 91-100: the erosion; with nothing left of the mask, the
\* mask is returned as it came.
Erode ==
    /\ stage = "erode"
    /\ eroded_mask' = binary_erosion(mask, 2)
    /\ IF label(eroded_mask') = {}
       THEN /\ cleaned_mask' = mask
            /\ stage' = "compose"
       ELSE /\ cleaned_mask' = {}
            /\ stage' = "filter"
    /\ UNCHANGED <<run, serving, original_array, modified_array, mask,
                   result_array, extraction, retrimmed>>

\* _clean_mask lines 102-110: the eroded regions under the floor are dropped.
Filter ==
    /\ stage = "filter"
    /\ cleaned_mask' = keep_regions(eroded_mask, MIN_REGION_SIZE)
    /\ stage' = IF cleaned_mask' = {} THEN "fallback" ELSE "closing"
    /\ UNCHANGED <<run, serving, original_array, modified_array, mask,
                   eroded_mask, result_array, extraction, retrimmed>>

\* _clean_mask lines 110-115: nothing was kept; the regions of the mask as it
\* came are tried with half the floor.
Fallback ==
    /\ stage = "fallback"
    /\ cleaned_mask' = cleaned_mask \cup keep_regions(mask, MIN_REGION_SIZE \div 2)
    /\ stage' = "closing"
    /\ UNCHANGED <<run, serving, original_array, modified_array, mask,
                   eroded_mask, result_array, extraction, retrimmed>>

\* _clean_mask line 118.
Closing ==
    /\ stage = "closing"
    /\ cleaned_mask' =
         binary_closing(cleaned_mask, 3, original_array.w, original_array.h)
    /\ stage' = "dilation"
    /\ UNCHANGED <<run, serving, original_array, modified_array, mask,
                   eroded_mask, result_array, extraction, retrimmed>>

\* _clean_mask line 121.
Dilation ==
    /\ stage = "dilation"
    /\ cleaned_mask' =
         binary_dilation(cleaned_mask, 2, original_array.w, original_array.h)
    /\ stage' = "opening"
    /\ UNCHANGED <<run, serving, original_array, modified_array, mask,
                   eroded_mask, result_array, extraction, retrimmed>>

\* _clean_mask lines 124-126: the opening; the cleaned mask is returned.
Opening ==
    /\ stage = "opening"
    /\ cleaned_mask' =
         binary_opening(cleaned_mask, 1, original_array.w, original_array.h)
    /\ stage' = "compose"
    /\ UNCHANGED <<run, serving, original_array, modified_array, mask,
                   eroded_mask, result_array, extraction, retrimmed>>

\* extract_element lines 71-78: the result array under the cleaned mask.
Compose ==
    /\ stage = "compose"
    /\ result_array' = compose(original_array, cleaned_mask)
    /\ stage' = "trim"
    /\ UNCHANGED <<run, serving, original_array, modified_array, mask,
                   eroded_mask, cleaned_mask, extraction, retrimmed>>

\* extract_element line 80: the result of _trim_and_encode is returned.
Trim ==
    /\ stage = "trim"
    /\ extraction' = trim_and_encode(result_array)
    /\ stage' = "done"
    /\ UNCHANGED <<run, serving, original_array, modified_array, mask,
                   eroded_mask, cleaned_mask, result_array, retrimmed>>

\* _trim_and_encode applied to the buffer it returned.
TrimAgain ==
    /\ stage = "done"
    /\ retrimmed' = trim_and_encode(extraction.src)
    /\ stage' = "retrimmed"
    /\ UNCHANGED <<run, serving, original_array, modified_array, mask,
                   eroded_mask, cleaned_mask, result_array, extraction>>

PixelNext ==
    \/ Open
    \/ Compare
    \/ Erode
    \/ Filter
    \/ Fallback
    \/ Closing
    \/ Dilation
    \/ Opening
    \/ Compose
    \/ Trim
    \/ TrimAgain

SpecPixels == PixelInit /\ [][PixelNext]_vars

\* ------------------------------------------- the requests of one event loop
\* POST /api/extract, routes.extract_elements, for NumRequests requests that
\* one event loop serves; each runs extract_all_elements as written.  A
\* coroutine runs on the loop's thread from one await to the next; a
\* response it awaits arrives while it is suspended.
Requests == 1..NumRequests

\* The locals of every call of extract_all_elements on one shared object.
Frame_of_singleton(r) == 1

\* The frame that holds the locals of request r's call of
\* extract_all_elements: each call of a coroutine function has its own.
Frame(r) == r

ALLOWED_CONTENT_TYPES ==
    {"image/png", "image/jpeg", "image/jpg", "image/webp", "image/gif"}

\* file.content_type and the bytes of file.read().
Uploads ==
    {[content_type |-> "image/png", image |-> s] : s \in ImageSizes}
      \cup {[content_type |-> "image/png", image |-> NoImage],
            [content_type |-> "text/plain", image |-> NoImage]}

\* The describe answers of a served request.
ServedAnswers ==
    {NoContent, Garbage, Elements(<<Elem("bg", "d0")>>),
     Elements(<<Elem("bg", "d0"), Elem("logo", "d0")>>)}

NoAnswer == [content |-> "pending"]
NoOutcome == [status |-> 0]

\* PolotnoFormatter.format_design behind a 200 response.
Design(width, height, elements) ==
    [status |-> 200, width |-> width, height |-> height, children |-> elements]

\* HTTPException(status_code=400), or an exception that leaves the handler.
Failure(status, e) == [status |-> status, error |-> e]

NoFrame ==
    [image_state |-> NoImage, extracted_elements |-> <<>>, iteration |-> 0,
     elements_description |-> <<>>, current_element |-> NoElement,
     isolation_prompt |-> NoPrompt]

Awaiting == {"read", "describe", "generate_isolation_prompt"}

ServeInit ==
    /\ NoRun
    /\ NoPixels
    /\ tasks \in [Requests -> {[pc |-> "start", upload |-> u, width |-> 0,
                                 height |-> 0, heard |-> <<>>,
                                 met |-> FALSE, outcome |-> NoOutcome] :
                                    u \in Uploads}]
    /\ frames = [f \in {Frame(r) : r \in Requests} |-> NoFrame]
    /\ on_loop = 0
    /\ inbox = [r \in Requests |-> NoAnswer]

\* The loop's thread is free and what request r awaits, if anything, is there.
CanStep(r) ==
    /\ on_loop = 0
    /\ tasks[r].pc \in Awaiting => inbox[r] # NoAnswer

Locals(r) == frames[Frame(r)]

\* Request r takes a step while another request is under way, or did before.
Met(r) ==
    \/ tasks[r].met
    \/ \E o \in Requests \ {r} : tasks[o].pc \notin {"start", "ended"}

\* Request r ends with `outcome`.
Ends(r, outcome) ==
    tasks' = [tasks EXCEPT ![r].pc = "ended", ![r].outcome = outcome,
                           ![r].met = Met(r)]

\* Routes lines 27-33: the content type is checked and the file is read.
Arrive(r) ==
    /\ tasks[r].pc = "start"
    /\ CanStep(r)
    /\ IF tasks[r].upload.content_type \in ALLOWED_CONTENT_TYPES
       THEN tasks' = [tasks EXCEPT ![r].pc = "read", ![r].met = Met(r)]
       ELSE Ends(r, Failure(400, "Invalid file type"))
    /\ UNCHANGED <<run, pixels, frames, on_loop, inbox>>

\* The response request r awaits arrives.
Complete(r) ==
    /\ tasks[r].pc \in Awaiting
    /\ inbox[r] = NoAnswer
    /\ \E answer \in CASE tasks[r].pc = "read" -> {[content |-> "bytes"]}
                      [] tasks[r].pc = "describe" -> ServedAnswers
                      [] OTHER -> PromptAnswers :
         inbox' = [inbox EXCEPT ![r] = answer]
    /\ UNCHANGED <<run, pixels, tasks, frames, on_loop>>

\* Routes lines 33-41 and orchestrator lines 32-40: the file is there; an
\* empty one is refused, else the locals are bound and describe is awaited.
AfterRead(r) ==
    /\ tasks[r].pc = "read"
    /\ CanStep(r)
    /\ IF tasks[r].upload.image = NoImage
       THEN /\ Ends(r, Failure(400, "Empty file uploaded"))
            /\ UNCHANGED frames
       ELSE /\ tasks' = [tasks EXCEPT ![r].pc = "describe", ![r].met = Met(r),
                                      ![r].width = tasks[r].upload.image.w,
                                      ![r].height = tasks[r].upload.image.h]
            /\ frames' = [frames EXCEPT ![Frame(r)] =
                             [NoFrame EXCEPT !.image_state = tasks[r].upload.image,
                                             !.iteration = 1]]
    /\ inbox' = [inbox EXCEPT ![r] = NoAnswer]
    /\ UNCHANGED <<run, pixels, on_loop>>

\* Orchestrator lines 40-55 and 73-80: the description is there.  Nothing
\* described: [] is returned and formatted; one element: extract_full_image
\* is entered; more: the last is picked and its prompt awaited.
AfterDescribe(r) ==
    /\ tasks[r].pc = "describe"
    /\ CanStep(r)
    /\ LET d == describe_elements(inbox[r])
           heard == Append(tasks[r].heard, inbox[r])
       IN IF d.raises
          THEN /\ tasks' = [tasks EXCEPT ![r].pc = "ended", ![r].heard = heard,
                                         ![r].met = Met(r),
                                         ![r].outcome = Failure(500, d.error)]
               /\ UNCHANGED <<frames, on_loop>>
          ELSE IF d.value = <<>>
          THEN /\ tasks' = [tasks EXCEPT
                              ![r].pc = "ended", ![r].heard = heard,
                              ![r].met = Met(r),
                              ![r].outcome =
                                  Design(tasks[r].width, tasks[r].height, <<>>)]
               /\ frames' = [frames EXCEPT
                               ![Frame(r)].elements_description = d.value]
               /\ UNCHANGED on_loop
          ELSE IF Len(d.value) = 1
          THEN /\ tasks' = [tasks EXCEPT ![r].pc = "extract_full_image",
                                         ![r].heard = heard, ![r].met = Met(r)]
               /\ frames' = [frames EXCEPT
                               ![Frame(r)].elements_description = d.value]
               /\ on_loop' = r
          ELSE /\ tasks' = [tasks EXCEPT ![r].pc = "generate_isolation_prompt",
                                         ![r].heard = heard, ![r].met = Met(r)]
               /\ frames' = [frames EXCEPT
                               ![Frame(r)].elements_description = d.value,
                               ![Frame(r)].current_element = d.value[Len(d.value)]]
               /\ UNCHANGED on_loop
    /\ inbox' = [inbox EXCEPT ![r] = NoAnswer]
    /\ UNCHANGED <<run, pixels>>

\* Orchestrator lines 55-71 and 135-141, routes lines 43-45: the numeric
\* stage, called in the coroutine, ends; the layer is appended, the list
\* reversed and formatted, and the loop's thread is free again.
FullImage(r) ==
    /\ tasks[r].pc = "extract_full_image"
    /\ on_loop = r
    /\ LET last_element == Locals(r).elements_description[1]
           appended ==
               Append(Locals(r).extracted_elements,
                      Layer(Len(Locals(r).extracted_elements) + 1, last_element,
                            extract_full_image(Locals(r).image_state)))
       IN /\ frames' = [frames EXCEPT ![Frame(r)].extracted_elements = appended]
          /\ Ends(r, Design(tasks[r].width, tasks[r].height, reversed(appended)))
    /\ on_loop' = 0
    /\ UNCHANGED <<run, pixels, inbox>>

\* Orchestrator lines 80-86: the prompt is there and isolate_element is
\* called with it.
AfterIsolationPrompt(r) ==
    /\ tasks[r].pc = "generate_isolation_prompt"
    /\ CanStep(r)
    /\ LET g == generate_isolation_prompt(Locals(r).current_element,
                                          Locals(r).image_state, inbox[r])
           heard == Append(tasks[r].heard, inbox[r])
       IN IF g.raises
          THEN /\ tasks' = [tasks EXCEPT ![r].pc = "ended", ![r].heard = heard,
                                         ![r].met = Met(r),
                                         ![r].outcome = Failure(500, g.error)]
               /\ UNCHANGED frames
          ELSE LET i == isolate_element(Locals(r).image_state, g.value)
               IN /\ frames' = [frames EXCEPT
                                  ![Frame(r)].isolation_prompt = g.value]
                  /\ tasks' = [tasks EXCEPT
                                 ![r].heard = heard, ![r].met = Met(r),
                                 ![r].pc = IF i.raises THEN "ended" ELSE "isolate_edit",
                                 ![r].outcome = IF i.raises
                                                THEN Failure(500, i.error)
                                                ELSE NoOutcome]
    /\ inbox' = [inbox EXCEPT ![r] = NoAnswer]
    /\ UNCHANGED <<run, pixels, on_loop>>

ServeNext ==
    \E r \in Requests :
        \/ Arrive(r)
        \/ Complete(r)
        \/ AfterRead(r)
        \/ AfterDescribe(r)
        \/ FullImage(r)
        \/ AfterIsolationPrompt(r)

SpecServe == ServeInit /\ [][ServeNext]_vars

\* ---------------------------------------------------------------- claims
Finished == pc \in {"returned", "raised"}

\* Extraction steps made so far, of either kind.
ExtractionSteps == calls["extract_element"] + calls["extract_full_image"]

\* The edit and reconcile collaborators were not called.
NoPeelCalls ==
    /\ calls["isolate_element"] = 0
    /\ calls["remove_element"] = 0
    /\ calls["update_element_references"] = 0

\* C1: when describe returns N >= 2 elements and every collaborator answers
\* in full, reconcile naming all its candidates, the run returns (it does not
\* raise) after exactly N extraction steps, with N layers that name the
\* described elements bottom to top, the reverse of the removal order.
C1_PeelsAllElements ==
    (Finished /\ Len(described) >= 2 /\ ~faults /\ echoed) =>
        /\ pc = "returned"
        /\ ExtractionSteps = Len(described)
        /\ Len(result) = Len(described)
        /\ \A i \in 1..Len(result) :
             /\ result[i].type = described[i].type
             /\ result[i].name = described[i].name
             /\ result[i] = extracted_elements[Len(result) + 1 - i]

\* C2: when describe returns exactly one element, the run makes one
\* iteration, calls neither isolate nor remove nor reconcile, and returns one
\* layer with that element's type, name and description, placed at (0, 0)
\* with the width and height of the input image.
C2_SingleElementIsFullCanvas ==
    (calls["describe"] = 1 /\ Len(described) = 1) =>
        /\ pc \in {"head", "returned"}
        /\ iteration = 1
        /\ NoPeelCalls
        /\ calls["extract_element"] = 0
        /\ pc = "returned" =>
             /\ ExtractionSteps = 1
             /\ Len(result) = 1
             /\ result[1].type = described[1].type
             /\ result[1].name = described[1].name
             /\ result[1].description = described[1].description
             /\ result[1].x = 0
             /\ result[1].y = 0
             /\ result[1].width = original_image.w
             /\ result[1].height = original_image.h

C2_Witness ==
    /\ pc = "returned"
    /\ Len(described) = 1
    /\ Len(result) = 1
    /\ result[1].width # result[1].height

\* C3: when the initial describe call returns an empty list, the run returns
\* the empty list without an error, without entering the loop and without
\* calling isolate, remove or reconcile.
C3_NothingDescribedReturnsEmpty ==
    (calls["describe"] = 1 /\ described = <<>> /\ error = "none") =>
        /\ pc = "returned"
        /\ result = <<>>
        /\ extracted_elements = <<>>
        /\ current_element = NoElement
        /\ NoPeelCalls
        /\ ExtractionSteps = 0

C3_Witness ==
    /\ pc = "returned"
    /\ calls["describe"] = 1
    /\ described = <<>>
    /\ last_call.answer = "no elements"

RefreshFailures == {"empty", "partial", "no elements", "invalid"}

RECURSIVE IsSubsequence(_, _)
IsSubsequence(xs, ys) ==
    IF xs = <<>> THEN TRUE
    ELSE IF ys = <<>> THEN FALSE
    ELSE IF Head(xs).type = Head(ys).type /\ Head(xs).name = Head(ys).name
         THEN IsSubsequence(Tail(xs), Tail(ys))
         ELSE IsSubsequence(xs, Tail(ys))

ChatCallees == {"describe", "generate_isolation_prompt",
                "generate_removal_prompt", "update_element_references"}
EditCallees == {"isolate_element", "remove_element"}

\* An empty or a partial response.
Transient(call) == call.answer \in {"empty", "partial"}

CallFailed ==
    \/ last_call.callee \in EditCallees /\ Transient(last_call)
    \/ last_call.callee \in ChatCallees /\ last_call.answer \in {"partial", "invalid"}

BodySteps == {"generate_isolation_prompt", "isolate_element", "isolate_edit",
              "extract_element", "generate_removal_prompt", "remove_element",
              "remove_edit", "shrink"}
AfterAppend == {"generate_removal_prompt", "remove_element", "remove_edit",
                "shrink"}

Extracted == stage \in {"done", "retrimmed"}

\* C12: _trim_and_encode of an image without a pixel of nonzero alpha returns
\* x = 0, y = 0, the width and height of the image and the whole image as
\* its buffer.
C12_TransparentImageIsReturnedWhole ==
    (Extracted /\ Opaque(result_array) = {}) =>
        extraction = ExtractionResult(0, 0, result_array.w, result_array.h,
                                      result_array)

C12_Witness ==
    /\ stage = "done"
    /\ Opaque(result_array) = {}
    /\ NonZero(result_array) # {}
    /\ extraction.width = GridW
    /\ extraction.height = GridH

\* C13: _trim_and_encode of the buffer _trim_and_encode returned gives the
\* same buffer with the same width and height, at x = 0, y = 0.
C13_TrimIsIdempotent ==
    stage = "retrimmed" =>
        /\ retrimmed.src = extraction.src
        /\ retrimmed.width = extraction.width
        /\ retrimmed.height = extraction.height
        /\ retrimmed.x = 0
        /\ retrimmed.y = 0

C13_Witness ==
    /\ stage = "retrimmed"
    /\ extraction.x > 0
    /\ extraction.y > 0
    /\ extraction.width < result_array.w
    /\ extraction.height < result_array.h
    /\ retrimmed.width = extraction.width

\* C14 as claimed: extract_element of two identical images returns a width
\* and a height of area 0.
C14_IdenticalGivesZeroArea ==
    (Extracted /\ modified_array = original_array) =>
        extraction.width * extraction.height = 0

\* C14: extract_element of two identical images selects no pixel and
\* returns the whole canvas, x = 0, y = 0 with the original's width and
\* height, every pixel of the buffer transparent.
C14_IdenticalGivesTransparentCanvas ==
    (Extracted /\ modified_array = original_array) =>
        /\ mask = {}
        /\ cleaned_mask = {}
        /\ extraction.x = 0
        /\ extraction.y = 0
        /\ extraction.width = original_array.w
        /\ extraction.height = original_array.h
        /\ \A p \in Grid(original_array.w, original_array.h) :
             extraction.src.px[p] = Zero

C14_Witness ==
    /\ stage = "done"
    /\ modified_array = original_array
    /\ Opaque(original_array) = Grid(GridW, GridH)
    /\ extraction.width * extraction.height = GridW * GridH

\* C15: a mask with an 8-connected region of at least MIN_REGION_SIZE pixels
\* is never cleaned to the empty mask, whatever the shape of the region and
\* wherever it lies.
C15_BigRegionIsNeverCleanedAway ==
    (/\ stage = "compose"
     /\ \E R \in Regions(mask, TRUE) : Cardinality(R) >= MIN_REGION_SIZE) =>
        cleaned_mask # {}

\* The filter dropped every region, at the floor and at half the floor.
AllDiscarded ==
    /\ eroded_mask # {}
    /\ keep_regions(eroded_mask, MIN_REGION_SIZE) = {}
    /\ keep_regions(mask, MIN_REGION_SIZE \div 2) = {}

\* C16: when the filter drops every region, at the floor and at half the
\* floor, _clean_mask returns the mask as it came; so a mask that is not
\* empty is never cleaned to the empty mask.
C16_AllDiscardedReturnsInput ==
    stage = "compose" =>
        /\ AllDiscarded => cleaned_mask = mask
        /\ mask # {} => cleaned_mask # {}

\* The position p of the canvas lies in the returned rectangle.
InBox(p) ==
    /\ p[1] \in extraction.x..(extraction.x + extraction.width - 1)
    /\ p[2] \in extraction.y..(extraction.y + extraction.height - 1)

\* The pixel the returned buffer holds for the position p of the canvas.
At(p) == extraction.src.px[<<p[1] - extraction.x, p[2] - extraction.y>>]

\* The returned rectangle is the tight box around the positions S.
TightAround(S) ==
    /\ \A p \in S : InBox(p)
    /\ \E p \in S : p[1] = extraction.x
    /\ \E p \in S : p[2] = extraction.y
    /\ \E p \in S : p[1] = extraction.x + extraction.width - 1
    /\ \E p \in S : p[2] = extraction.y + extraction.height - 1

\* C17 as claimed: with a cleaned mask that selects a pixel, the result has
\* the original's pixel at every selected position and alpha 0 at every
\* other, and x, y, width, height are the tight box of the pixels of the
\* result that are not transparent.
C17_ResultHoldsEverySelectedPixel ==
    (Extracted /\ cleaned_mask # {}) =>
        /\ \A p \in cleaned_mask : InBox(p) /\ At(p) = original_array.px[p]
        /\ \A p \in Grid(original_array.w, original_array.h) \ cleaned_mask :
             InBox(p) => At(p).a = 0
        /\ TightAround({p \in cleaned_mask : original_array.px[p].a # 0})

\* C17: with a cleaned mask that selects a pixel, every position of the
\* returned rectangle holds the original's pixel when selected and the zero
\* pixel when not; when the original is not transparent at some selected
\* position, x, y, width, height are the tight box of the selected positions
\* where it is not transparent (the selected positions outside that box are
\* cut off); otherwise the rectangle is the whole canvas.
C17_ResultHoldsSelectedPixelsInBox ==
    (Extracted /\ cleaned_mask # {}) =>
        LET solid == {p \in cleaned_mask : original_array.px[p].a # 0} IN
        /\ \A p \in Grid(original_array.w, original_array.h) :
             InBox(p) => At(p) = IF p \in cleaned_mask
                                 THEN original_array.px[p] ELSE Zero
        /\ solid # {} => TightAround(solid)
        /\ solid = {} =>
             /\ extraction.x = 0
             /\ extraction.y = 0
             /\ extraction.width = original_array.w
             /\ extraction.height = original_array.h

C17_Witness ==
    /\ stage = "done"
    /\ <<0, 0>> \in cleaned_mask
    /\ ~InBox(<<0, 0>>)
    /\ extraction.x = 3
    /\ extraction.width < original_array.w
    /\ extraction.height < original_array.h

\* C18: while a request runs a numeric stage, another request whose awaited
\* collaborator call has completed can take its next step.
C18_NumericStageLeavesLoopFree ==
    \A a, b \in Requests :
        (/\ a # b
         /\ tasks[a].pc = "extract_full_image"
         /\ tasks[b].pc \in Awaiting
         /\ inbox[b] # NoAnswer) => CanStep(b)

\* What a request returns when it is served alone: routes.extract_elements
\* on `upload` with the collaborator answers `heard`, in order.
Alone(upload, heard) ==
    IF upload.content_type \notin ALLOWED_CONTENT_TYPES
    THEN Failure(400, "Invalid file type")
    ELSE IF upload.image = NoImage THEN Failure(400, "Empty file uploaded")
    ELSE LET d == describe_elements(heard[1]) IN
      IF d.raises THEN Failure(500, d.error)
      ELSE IF d.value = <<>> THEN Design(upload.image.w, upload.image.h, <<>>)
      ELSE IF Len(d.value) = 1
      THEN Design(upload.image.w, upload.image.h,
                  <<Layer(1, d.value[1], extract_full_image(upload.image))>>)
      ELSE LET g == generate_isolation_prompt(d.value[Len(d.value)],
                                              upload.image, heard[2]) IN
        IF g.raises THEN Failure(500, g.error)
        ELSE LET i == isolate_element(upload.image, g.value) IN
          IF i.raises THEN Failure(500, i.error) ELSE NoOutcome

\* C19: the image state, the descriptors, the layers and the iteration count
\* of a request are written by that request only (they are untouched before
\* it binds them), and a request returns what it would return served alone
\* with the same upload and the same collaborator answers.
C19_RequestsShareNoPipelineState ==
    \A r \in Requests :
        /\ tasks[r].pc \in {"start", "read"} => Locals(r) = NoFrame
        /\ tasks[r].pc \notin {"start", "read", "ended"} =>
             Locals(r).image_state = tasks[r].upload.image
        /\ tasks[r].pc = "ended" =>
             tasks[r].outcome = Alone(tasks[r].upload, tasks[r].heard)

C19_Witness ==
    /\ \A r \in Requests :
         /\ tasks[r].pc = "ended"
         /\ tasks[r].met
         /\ tasks[r].outcome.status = 200
         /\ Len(tasks[r].outcome.children) = 1
    /\ tasks[1].outcome.children[1].width # tasks[2].outcome.children[1].width

\* The positions of a non-terminal iteration before its remove call returns,
\* and those after it.
BeforeRemoval == {"generate_isolation_prompt", "isolate_element",
                  "isolate_edit", "extract_element", "generate_removal_prompt",
                  "remove_element", "remove_edit"}
AfterRemoval == {"shrink", "update_element_references"}

\* How many times each step was begun once iteration k has come to `at`:
\* k times the steps that `at` follows, k - 1 times the others.
Begun(step, after) ==
    calls[step] = IF pc \in after THEN iteration ELSE iteration - 1

RECURSIVE Total(_)
Total(delays) ==
    IF delays = <<>> THEN 0 ELSE delays[1] + Total(Tail(delays))

\* The delay exponential backoff puts before retry k.
Backoff(k) == RETRY_DELAY * 2 ^ (k - 1)

====
